---- MODULE Spec2Model ----
(***************************************************************************)
(* A model of the layout, geometry and encoding functions of nxviz.        *)
(*                                                                         *)
(* Every function of the library is pure, so the state of the model is the *)
(* last call made: its name (op), its arguments (args) and what it         *)
(* returned or raised (ret).  Each action draws the arguments of one       *)
(* function from a bounded set and applies the function.  What could       *)
(* outlive a call is a dictionary of keyword arguments that the caller     *)
(* passes again (kwargs); earlier remembers a past call of nodes.draw.     *)
(*                                                                         *)
(* Numbers.  Angles are integers counted in steps of 3 degrees, so that    *)
(* pi is PI steps and every i*2*pi/n with n in 1..6 is a whole number of   *)
(* steps.  cos and sin are tabulated to three decimals and carried as      *)
(* integers scaled by Scale; a cartesian coordinate is therefore an        *)
(* integer equal to Scale times the real coordinate.                       *)
(***************************************************************************)
EXTENDS Integers, Sequences, FiniteSets, TLC

\* op, args, ret: the call made last.  kwargs: the dictionary that a caller
\* (or a functools.partial) holds and passes as encodings_kwargs to every
\* call of nodes.draw.  earlier: an earlier call that is remembered.
VARIABLES op, args, ret, kwargs, earlier

vars == <<op, args, ret, kwargs, earlier>>

----------------------------------------------------------------------------
(* Bounds of the model.                                                    *)

\* largest radius handed to to_cartesian / to_polar
MaxR == 3

\* angles handed to the converters range over -MaxTurns*pi .. MaxTurns*pi
MaxTurns == 3

\* a list handed to item_theta has at most MaxItems items, drawn from
\* 1..MaxItems
MaxItems == 3

\* a node table with freely chosen columns has at most MaxNodes rows
MaxNodes == 3

\* the group column holds the values 1..MaxGroups, or no value
MaxGroups == 4

\* the sort column holds the values 1..MaxValue
MaxValue == 2

\* a data column has at most MaxDistinct distinct values
MaxDistinct == 14

\* and at most MaxRepeats repeated entries after them
MaxRepeats == 1

----------------------------------------------------------------------------
(* numpy: sin, cos, pi, arctan2, sqrt.                                     *)

\* sin(3 degrees * i) * 1000 for i = 0..30, indexed from 1
SinQuarter ==
    << 0, 52, 105, 156, 208, 259, 309, 358, 407, 454, 500,
       545, 588, 629, 669, 707, 743, 777, 809, 839, 866,
       891, 914, 934, 951, 966, 978, 988, 995, 999, 1000 >>

QuarterTurn == Len(SinQuarter) - 1

PI == 2 * QuarterTurn

TwoPI == 2 * PI

Scale == SinQuarter[Len(SinQuarter)]

Abs(n) == IF n < 0 THEN -n ELSE n

\* numpy.sin on an angle in steps; the result is scaled by Scale
Sin(theta) ==
    LET t == theta % TwoPI
    IN  IF t <= QuarterTurn THEN SinQuarter[t + 1]
        ELSE IF t <= PI THEN SinQuarter[PI - t + 1]
        ELSE IF t <= PI + QuarterTurn THEN -SinQuarter[t - PI + 1]
        ELSE -SinQuarter[TwoPI - t + 1]

\* numpy.cos on an angle in steps; the result is scaled by Scale
Cos(theta) == Sin(theta + QuarterTurn)

\* the angle of lo..hi that faces (x, y) and is nearest to its direction,
\* the first of several equally near ones; <<>> when none faces it
RECURSIVE Nearest(_, _, _, _)
Nearest(y, x, lo, hi) ==
    LET Off(t) == Abs(x * Sin(t) - y * Cos(t))
        mid == (lo + hi) \div 2
        lower == Nearest(y, x, lo, mid)
        upper == Nearest(y, x, mid + 1, hi)
    IN  IF lo = hi
        THEN IF x * Cos(lo) + y * Sin(lo) > 0 THEN <<lo>> ELSE <<>>
        ELSE IF lower = <<>> THEN upper
        ELSE IF upper = <<>> THEN lower
        ELSE IF Off(upper[1]) < Off(lower[1]) THEN upper
        ELSE lower

\* numpy.arctan2(y, x): the angle in (-pi, pi] whose direction is nearest
\* to that of (x, y); arctan2(0, 0) is 0
Atan2(y, x) ==
    IF x = 0 /\ y = 0 THEN 0 ELSE Nearest(y, x, 1 - PI, PI)[1]

RECURSIVE SqrtSearch(_, _, _)
SqrtSearch(v, lo, hi) ==
    IF lo >= hi THEN lo
    ELSE LET mid == (lo + hi + 1) \div 2
         IN  IF mid * mid <= v THEN SqrtSearch(v, mid, hi)
             ELSE SqrtSearch(v, lo, mid - 1)

\* numpy.sqrt, rounded down to a whole number
Sqrt(v) == SqrtSearch(v, 0, 46340)

----------------------------------------------------------------------------
(* Python lists and pandas tables.                                         *)

\* list.index(x): the 0-based index of the first occurrence of x
Index(list, x) ==
    (CHOOSE i \in 1..Len(list) :
        list[i] = x /\ \A j \in 1..(i - 1) : list[j] # x) - 1

Contains(list, x) == \E i \in 1..Len(list) : list[i] = x

RECURSIVE Sum(_, _)
Sum(f, S) ==
    IF S = {} THEN 0
    ELSE LET e == CHOOSE e \in S : TRUE
         IN  f[e] + Sum(f, S \ {e})

\* the elements of a set of integers in ascending order
RECURSIVE SortedSeq(_)
SortedSeq(S) ==
    IF S = {} THEN <<>>
    ELSE LET m == CHOOSE m \in S : \A e \in S : m <= e
         IN  <<m>> \o SortedSeq(S \ {m})

----------------------------------------------------------------------------
(* nxviz/polcart.py                                                        *)

\* what a call does: it raises exc, or it returns value
\* and what the message of the exception names
RaisedAbout(exc, what) == [status |-> "raise", value |-> what, exc |-> exc]

Raised(exc) == RaisedAbout(exc, <<>>)

Returned(v) == [status |-> "ok", value |-> v, exc |-> "None"]

\* to_proper_radians with the remainder taken modulo a full turn
to_proper_radians_FullTurn(theta) ==
    IF theta > PI \/ theta < -PI THEN theta % TwoPI ELSE theta

to_proper_radians(theta) ==
    IF theta > PI \/ theta < -PI THEN theta % PI ELSE theta

\* the half turn in degrees; an angle in degrees is a whole number of degrees
HalfTurn == 180

to_proper_degrees(theta) ==
    IF theta > HalfTurn \/ theta < -HalfTurn THEN theta % HalfTurn ELSE theta

\* theta in steps, the result in degrees
to_degrees(theta) == (to_proper_radians(theta) * HalfTurn) \div PI

\* theta in degrees, the result in steps, rounded down to a whole step
to_radians(theta) == (to_proper_degrees(theta) * PI) \div HalfTurn

to_cartesian(r, theta) ==
    LET t == to_proper_radians(theta)
    IN  <<r * Cos(t), r * Sin(t)>>

\* theta_units is "radians" (the angle in steps) or "degrees"
to_polar(x, y, theta_units) ==
    LET theta == Atan2(y, x)
        r == Sqrt(x * x + y * y)
    IN  IF theta_units = "degrees" THEN <<r, to_degrees(theta)>>
        ELSE <<r, theta>>

----------------------------------------------------------------------------
(* nxviz/geometry.py                                                       *)

\* item_theta without the membership assertion, a node that is not in the
\* list getting the angle 0
item_theta_DefaultAngle(nodelist, node) ==
    IF Len(nodelist) = 0 THEN Raised("AssertionError")
    ELSE IF ~Contains(nodelist, node) THEN Returned(0)
    ELSE Returned((Index(nodelist, node) * 2 * PI) \div Len(nodelist))

\* item_theta(nodelist, node): the two assert statements, then i*2*pi/n
item_theta(nodelist, node) ==
    IF Len(nodelist) = 0 THEN Raised("AssertionError")
    ELSE IF ~Contains(nodelist, node) THEN Raised("AssertionError")
    ELSE Returned((Index(nodelist, node) * 2 * PI) \div Len(nodelist))

\* The float quotient circos_radius(1) = 2*sin(-pi/2)/sin(2*pi), where
\* sin(2*pi) is -2.4e-16 in floating point: a radius of the order 10^16.
HugeRadius == Scale * Scale

\* circos_radius with the node radius in the place of the node diameter
circos_radius_Radius(n_nodes, node_radius) ==
    IF n_nodes = 0 THEN Raised("ZeroDivisionError")
    ELSE LET A == TwoPI \div n_nodes
             B == (PI - A) \div 2
             a == node_radius
         IN  IF n_nodes = 1 THEN Returned(node_radius * HugeRadius)
             ELSE IF n_nodes = 2 THEN Returned(0)
             ELSE Returned((a * Sin(B) * Scale) \div Sin(A))

\* circos_radius(n_nodes, node_radius), scaled by Scale.  In floating point
\* sin(pi) is 1.2e-16 and sin(2*pi) is -2.4e-16, never 0, so n_nodes = 2
\* gives 0/1.2e-16 = 0 and n_nodes = 1 gives HugeRadius; n_nodes = 0 divides
\* by the integer 0.
circos_radius(n_nodes, node_radius) ==
    IF n_nodes = 0 THEN Raised("ZeroDivisionError")
    ELSE LET A == TwoPI \div n_nodes
             B == (PI - A) \div 2
             a == 2 * node_radius
         IN  IF n_nodes = 1 THEN Returned(node_radius * HugeRadius)
             ELSE IF n_nodes = 2 THEN Returned(0)
             ELSE Returned((a * Sin(B) * Scale) \div Sin(A))

\* correct_hive_angles with the swap of rule 2 written as an assignment of
\* start alone, so that end keeps its 0
correct_hive_angles_LostSwap(start, end) ==
    LET end1 == IF start > PI /\ end = 0 THEN TwoPI ELSE end
        swap == start < PI /\ end1 = 0
        start2 == IF swap THEN end1 ELSE start
        end2 == end1
        start3 == IF end2 < PI /\ start2 = TwoPI THEN 0 ELSE start2
        start4 == IF end2 > PI /\ start3 = 0 THEN TwoPI ELSE start3
    IN  <<start4, end2>>

correct_hive_angles(start, end) ==
    LET end1 == IF start > PI /\ end = 0 THEN TwoPI ELSE end
        swap == start < PI /\ end1 = 0
        start2 == IF swap THEN end1 ELSE start
        end2 == IF swap THEN start ELSE end1
        start3 == IF end2 < PI /\ start2 = TwoPI THEN 0 ELSE start2
        start4 == IF end2 > PI /\ start3 = 0 THEN TwoPI ELSE start3
    IN  <<start4, end2>>

----------------------------------------------------------------------------
(* pandas: the node table, DataFrame.sort_values and DataFrame.groupby.    *)

\* a function argument that was not given
None == "None"

\* a missing value of the group column
NaN == 0

GroupValues == {NaN} \cup (1..MaxGroups)

\* The group columns of n rows.  Only the order of the group values matters
\* to a layout, so the values in use are taken to be 1..k for some k.
GroupColumns(n) ==
    { g \in [1..n -> GroupValues] :
        \A i \in 1..n : g[i] > 1 => \E j \in 1..n : g[j] = g[i] - 1 }

\* the node table of utils.node_table: one row per node, keyed by the
\* node; the nodes are numbered in the order the graph lists them
TablesOfLen(n) ==
    { [i \in 1..n |-> [node |-> i, group |-> g[i], value |-> v[i],
                       longitude |-> 10 * i, latitude |-> 50 - i]] :
        g \in GroupColumns(n), v \in [1..n -> 1..MaxValue] }

\* make_dummyG of tests/fixtures/graphs.py, cut to six nodes: the groups
\* cycle through "sun", "moon", "stars" (ranked 3, 1, 2 in sorted order) and
\* the values through 1..5
DummyTable ==
    [i \in 1..6 |-> [node |-> i, group |-> <<3, 1, 2>>[((i - 1) % 3) + 1],
                     value |-> ((i - 1) % 5) + 1,
                     longitude |-> 10 * i, latitude |-> 50 - i]]

\* manygroupG of tests/fixtures/graphs.py, cut to four nodes: the groups
\* "sun", "moon", "stars", "cloud" are ranked 4, 2, 3, 1 in sorted order
ManyGroupTable ==
    [i \in 1..4 |-> [node |-> i, group |-> <<4, 2, 3, 1>>[i],
                     value |-> ((i - 1) % 5) + 1,
                     longitude |-> 10 * i, latitude |-> 50 - i]]

Tables ==
    UNION {TablesOfLen(n) : n \in 0..MaxNodes}
        \cup {DummyTable, ManyGroupTable}

MaxRows == CHOOSE m \in {Len(t) : t \in Tables} :
               \A t \in Tables : Len(t) <= m

PermsOf ==
    [n \in 0..MaxRows |->
        {p \in [1..n -> 1..n] : \A i, j \in 1..n : i # j => p[i] # p[j]}]

Permute(t, p) == [i \in 1..Len(t) |-> t[p[i]]]

\* the rank of a row under one column; missing values sort last
Key(row, col) ==
    IF col = "group"
    THEN (IF row.group = NaN THEN MaxGroups + 1 ELSE row.group)
    ELSE row.value

IsMissing(row, col) == col = "group" /\ row.group = NaN

\* sort_values by one column: nargsort with kind="quicksort", which is not a
\* stable sort, so rows with equal keys come out in any order; the rows with
\* a missing key are appended in their input order
SortValues1(t, col) ==
    { Permute(t, p) : p \in
        { q \in PermsOf[Len(t)] :
            \A i, j \in 1..Len(t) : i < j =>
                /\ Key(t[q[i]], col) <= Key(t[q[j]], col)
                /\ (IsMissing(t[q[i]], col) /\ IsMissing(t[q[j]], col)
                        => q[i] < q[j]) } }

\* row a sorts before row b under (group, value)
LexLess(a, b) ==
    \/ Key(a, "group") < Key(b, "group")
    \/ Key(a, "group") = Key(b, "group") /\ Key(a, "value") < Key(b, "value")

\* sort_values by two columns: lexsort, which is stable
SortValues2(t) ==
    { Permute(t, p) : p \in
        { q \in PermsOf[Len(t)] :
            \A i, j \in 1..Len(t) : i < j =>
                \/ LexLess(t[q[i]], t[q[j]])
                \/ ~LexLess(t[q[j]], t[q[i]]) /\ q[i] < q[j] } }

\* the keys of groupby(group_by), ascending; rows without a value are dropped
GroupKeys(t) == SortedSeq({t[i].group : i \in 1..Len(t)} \ {NaN})

\* Series.unique() of the group column of a table sorted by that column,
\* then sorted(): the values ascending, the missing value last
UniqueGroups(t) ==
    GroupKeys(t) \o
        (IF \E i \in 1..Len(t) : t[i].group = NaN THEN <<NaN>> ELSE <<>>)

Nodes(t) == [i \in 1..Len(t) |-> t[i].node]

NodeSet(t) == {t[i].node : i \in 1..Len(t)}

\* the nodes that an iteration over groupby(group_by) visits
GroupedNodes(t) == {t[i].node : i \in {j \in 1..Len(t) : t[j].group # NaN}}

\* the 1-based row of a node
RowOf(t, node) == CHOOSE i \in 1..Len(t) : t[i].node = node

\* the number of rows of the same group above row i
RankInGroup(t, i) ==
    Cardinality({j \in 1..(i - 1) : t[j].group = t[i].group})

----------------------------------------------------------------------------
(* nxviz/utils.py                                                          *)

\* group_and_sort: the orders sort_values may produce
group_and_sort(node_table, group_by, sort_by) ==
    IF group_by # None /\ sort_by # None THEN SortValues2(node_table)
    ELSE IF group_by # None THEN SortValues1(node_table, "group")
    ELSE IF sort_by # None THEN SortValues1(node_table, "value")
    ELSE {node_table}

----------------------------------------------------------------------------
(* nxviz/layouts.py.  Each layout is given as the set of results it may     *)
(* return, one per order that sort_values may produce.                     *)

\* parallel with the columns three apart
parallel_ThreeApart(nt, group_by, sort_by) ==
    { Returned([node \in GroupedNodes(nt) |->
            LET i == RowOf(data, node)
                x == Index(GroupKeys(nt), data[i].group)
                y == RankInGroup(data, i)
            IN  <<x * 3, y>>]) :
        data \in (IF sort_by # None THEN SortValues1(nt, "value") ELSE {nt}) }
parallel(nt, group_by, sort_by) ==
    { Returned([node \in GroupedNodes(nt) |->
            LET i == RowOf(data, node)
                x == Index(GroupKeys(nt), data[i].group)
                y == RankInGroup(data, i)
            IN  <<x * 4, y>>]) :
        data \in (IF sort_by # None THEN SortValues1(nt, "value") ELSE {nt}) }

\* radius is <<>> when not given, <<r>> when given; positions are scaled
\* by Scale * Scale
circos(nt0, group_by, sort_by, radius) ==
    { LET nodes == Nodes(nt)
          r == IF radius = <<>> THEN circos_radius(Len(nodes), 1)
               ELSE Returned(radius[1] * Scale)
          placed == IF group_by # None THEN GroupedNodes(nt) ELSE NodeSet(nt)
      IN  IF r.status = "raise" THEN r
          ELSE Returned([node \in placed |->
                  to_cartesian(r.value, item_theta(nodes, node).value)]) :
        nt \in group_and_sort(nt0, group_by, sort_by) }

\* positions are scaled by Scale
hive(nt0, group_by, sort_by, inner_radius, rotation) ==
    { LET groups == UniqueGroups(nt)
      IN  IF Len(groups) > 3 THEN RaisedAbout("ValueError", group_by)
          ELSE Returned([node \in GroupedNodes(nt) |->
                  LET row == RowOf(nt, node)
                      i == RankInGroup(nt, row)
                      radius == inner_radius + i
                      theta == item_theta(groups, nt[row].group).value
                                   + rotation
                  IN  to_cartesian(radius * 2, theta)]) :
        nt \in group_and_sort(nt0, group_by, sort_by) }

arc(nt0, group_by, sort_by) ==
    { Returned([node \in NodeSet(nt) |->
            LET x == RowOf(nt, node) - 1 IN <<x * 2, 0>>]) :
        nt \in group_and_sort(nt0, group_by, sort_by) }

geo(nt, group_by, sort_by) ==
    { Returned([node \in NodeSet(nt) |->
            LET data == nt[RowOf(nt, node)]
            IN  <<data.longitude, data.latitude>>]) }

\* matrix with the first node at 0, as arc has it
matrix_ZeroBased(nt0, group_by, sort_by, axis) ==
    { Returned([node \in NodeSet(nt) |->
            LET i == RowOf(nt, node) - 1
                x == i * 2
                y == 0
            IN  IF axis = "y" THEN <<y, x>> ELSE <<x, y>>]) :
        nt \in group_and_sort(nt0, group_by, sort_by) }

\* matrix: node number i of the sorted table at 2*(i + 1) on the axis
matrix(nt0, group_by, sort_by, axis) ==
    { Returned([node \in NodeSet(nt) |->
            LET i == RowOf(nt, node) - 1
                x == (i + 1) * 2
                y == 0
            IN  IF axis = "y" THEN <<y, x>> ELSE <<x, y>>]) :
        nt \in group_and_sort(nt0, group_by, sort_by) }

----------------------------------------------------------------------------
(* pandas: a data column (Series), with its dtype and its name.            *)

\* k distinct values from lo upwards, ascending or descending, followed by
\* repeats of the first one.  The values of an "object" column stand for
\* strings, whose sorted order is the order of the numbers.
ColumnValues(lo, k, descending, repeats) ==
    LET base == [i \in 1..k |->
                    IF descending THEN lo + k - i ELSE lo + i - 1]
    IN  base \o [i \in 1..(IF k = 0 THEN 0 ELSE repeats) |-> base[1]]

Columns ==
    { [dtype |-> dtype, name |-> name,
       values |-> ColumnValues(lo, k, descending, repeats)] :
        dtype \in {"float", "int", "object"}, name \in {"group", "value"},
        lo \in {-1, 1}, k \in 0..MaxDistinct, descending \in BOOLEAN,
        repeats \in 0..MaxRepeats }

\* Series.unique(): the distinct values in order of first appearance
RECURSIVE Unique(_)
Unique(values) ==
    IF values = <<>> THEN <<>>
    ELSE LET front == Unique(SubSeq(values, 1, Len(values) - 1))
             last == values[Len(values)]
         IN  IF Contains(front, last) THEN front ELSE Append(front, last)

ValueSet(values) == {values[i] : i \in 1..Len(values)}

Max(a, b) == IF a >= b THEN a ELSE b

----------------------------------------------------------------------------
(* nxviz/utils.py: infer_data_family                                       *)

infer_data_family(data) ==
    IF data.dtype = "float" THEN "continuous"
    ELSE IF data.dtype = "int"
         THEN (IF Cardinality(ValueSet(data.values)) > 9 THEN "continuous"
               ELSE "ordinal")
         ELSE "categorical"

----------------------------------------------------------------------------
(* nxviz/encodings.py                                                      *)

\* the largest qualitative colormap of colorbrewer, Set3_12
MaxCategories == 12

\* A palette is [kind |-> "list", colors |-> a sequence of colours],
\* [kind |-> "dict", colors |-> a function from values to colours], or
\* NoPalette when the argument is None.
NoPalette == [kind |-> "None", colors |-> <<>>]

\* A colormap is a record: the Set3 colormap of n colours, the caller's
\* palette, or a named matplotlib colormap.
NamedCmap(name) == [cmap |-> name, n |-> 0, palette |-> NoPalette]

\* data_cmap with the cap tested as num_categories >= 12
data_cmap_CapOffByOne(data, palette) ==
    LET data_family == infer_data_family(data)
    IN  IF data_family = "categorical"
        THEN IF palette = NoPalette
             THEN LET num_categories == Max(Len(Unique(data.values)), 3)
                  IN  IF num_categories >= MaxCategories
                      THEN RaisedAbout("ValueError", data.name)
                      ELSE Returned(<<[cmap |-> "Set3", n |-> num_categories,
                                       palette |-> NoPalette], data_family>>)
             ELSE Returned(<<[cmap |-> "palette", n |-> 0,
                              palette |-> palette], data_family>>)
        ELSE IF data_family = "divergent"
             THEN Returned(<<NamedCmap("bwr"), data_family>>)
             ELSE Returned(<<NamedCmap("viridis"), data_family>>)

data_cmap(data, palette) ==
    LET data_family == infer_data_family(data)
    IN  IF data_family = "categorical"
        THEN IF palette = NoPalette
             THEN LET num_categories == Max(Len(Unique(data.values)), 3)
                  IN  IF num_categories > MaxCategories
                      THEN RaisedAbout("ValueError", data.name)
                      ELSE Returned(<<[cmap |-> "Set3", n |-> num_categories,
                                       palette |-> NoPalette], data_family>>)
             ELSE Returned(<<[cmap |-> "palette", n |-> 0,
                              palette |-> palette], data_family>>)
        ELSE IF data_family = "divergent"
             THEN Returned(<<NamedCmap("bwr"), data_family>>)
             ELSE Returned(<<NamedCmap("viridis"), data_family>>)

\* matplotlib Normalize(vmin, vmax)(val), scaled by Scale; 0 when the
\* range is empty
Normalize(vmin, vmax, val) ==
    IF vmin = vmax THEN 0 ELSE ((val - vmin) * Scale) \div (vmax - vmin)

Min(a, b) == IF a <= b THEN a ELSE b

SeriesMin(values) ==
    CHOOSE m \in ValueSet(values) : \A v \in ValueSet(values) : m <= v

SeriesMax(values) ==
    CHOOSE m \in ValueSet(values) : \A v \in ValueSet(values) : m >= v

\* a colour is named by the colormap and the place in it
continuous_color_func(val, cmap, data) ==
    Returned(<<cmap.cmap,
               Normalize(SeriesMin(data.values), SeriesMax(data.values), val)>>)

\* the range is made symmetric about zero
divergent_color_func(val, cmap, data) ==
    LET vmin == Min(SeriesMin(data.values), -SeriesMax(data.values))
        vmax == Max(SeriesMax(data.values), -SeriesMin(data.values))
    IN  Returned(<<cmap.cmap, Normalize(vmin, vmax, val)>>)
discrete_color_func(val, cmap, data, palette) ==
    IF palette # NoPalette
    THEN IF palette.kind = "dict"
         THEN (IF val \in DOMAIN palette.colors
               THEN Returned(palette.colors[val])
               ELSE RaisedAbout("KeyError", val))
         ELSE (IF Len(palette.colors) = 0
               THEN RaisedAbout("KeyError", val)
               ELSE LET i == Index(Unique(data.values), val)
                    IN  Returned(palette.colors[(i % Len(palette.colors)) + 1]))
    ELSE LET colors == SortedSeq(ValueSet(data.values))
         IN  Returned(<<cmap.cmap, cmap.n, Index(colors, val)>>)

\* color_func(data, palette) applied to val: the partial it returns
color_func(data, palette, val) ==
    LET made == data_cmap(data, palette)
    IN  IF made.status = "raise" THEN made
        ELSE LET cmap == made.value[1]
                 data_family == made.value[2]
             IN  IF data_family \in {"continuous", "ordinal"}
                 THEN continuous_color_func(val, cmap, data)
                 ELSE discrete_color_func(val, cmap, data, palette)

\* data_color(data, ref_data, palette): color_func(ref_data, palette) is
\* built first and raises first; then it is applied to every value
data_color(data, ref_data, palette) ==
    LET made == data_cmap(ref_data, palette)
        each == [i \in 1..Len(data.values) |->
                    color_func(ref_data, palette, data.values[i])]
    IN  IF made.status = "raise" THEN made
        ELSE IF \E i \in 1..Len(each) : each[i].status = "raise"
             THEN each[CHOOSE i \in 1..Len(each) :
                          /\ each[i].status = "raise"
                          /\ \A j \in 1..(i - 1) : each[j].status = "ok"]
             ELSE Returned([i \in 1..Len(each) |-> each[i].value])

\* the palettes a caller passes for a column: none, a list of 1, 3 or 13
\* colours, a dictionary with a colour for every value, and a dictionary
\* that lacks the first value
Palettes(data) ==
    {NoPalette}
        \cup {[kind |-> "list", colors |-> [i \in 1..n |-> 100 + i]] :
                n \in {1, 3, MaxCategories + 1}}
        \cup {[kind |-> "dict",
               colors |-> [v \in ValueSet(data.values) |-> 200 + v]]}
        \cup {[kind |-> "dict",
               colors |-> [v \in ValueSet(data.values) \ {data.values[i]}
                              |-> 200 + v]] : i \in 1..Min(1, Len(data.values))}

----------------------------------------------------------------------------
(* nxviz/encodings.py: transparency and size.  A Series is the sequence of *)
(* its values; alphas and sizes are carried scaled by Scale.               *)

\* Normalize has clip=False: a value outside vmin..vmax is not clipped
data_transparency(data, ref_data) ==
    [i \in 1..Len(data) |->
        Normalize(SeriesMin(ref_data), SeriesMax(ref_data), data[i])]

data_size(data, ref_data) ==
    [i \in 1..Len(data) |-> Sqrt(data[i] * Scale * Scale)]

----------------------------------------------------------------------------
(* nxviz/nodes.py                                                          *)

\* nt[column] for the numeric column of the node table
ValueColumn(nt) == [i \in 1..Len(nt) |-> nt[i].value]

node_colors(nt, color_by) ==
    IF color_by # None
    THEN LET data == [dtype |-> "int", name |-> color_by,
                      values |-> ValueColumn(nt)]
         IN  data_color(data, data, NoPalette)
    ELSE Returned([i \in 1..Len(nt) |-> "blue"])

\* transparency of nodes.py with the default of 0.1 that edges.alpha_func
\* documents
nodes_transparency_DefaultPartial(nt, alpha_by, alpha_bounds) ==
    IF alpha_by # None
    THEN LET ref_data == IF alpha_bounds # <<>> THEN alpha_bounds
                         ELSE ValueColumn(nt)
         IN  data_transparency(ValueColumn(nt), ref_data)
    ELSE [i \in 1..Len(nt) |-> Scale \div 10]

\* transparency of nodes.py; alpha_bounds is <<>> when not given and the
\* tuple <<lower, upper>> when given
nodes_transparency(nt, alpha_by, alpha_bounds) ==
    IF alpha_by # None
    THEN LET ref_data == IF alpha_bounds # <<>> THEN alpha_bounds
                         ELSE ValueColumn(nt)
         IN  data_transparency(ValueColumn(nt), ref_data)
    ELSE [i \in 1..Len(nt) |-> Scale]

node_size(nt, size_by) ==
    IF size_by # None THEN data_size(ValueColumn(nt), ValueColumn(nt))
    ELSE [i \in 1..Len(nt) |-> Scale]

\* layout_func(nt, group_by, sort_by) with the default keyword arguments of
\* each layout
layout_func(layout, nt, group_by, sort_by) ==
    CASE layout = "parallel" -> parallel(nt, group_by, sort_by)
      [] layout = "circos" -> circos(nt, group_by, sort_by, <<>>)
      [] layout = "hive" -> hive(nt, group_by, sort_by, 8, 0)
      [] layout = "arc" -> arc(nt, group_by, sort_by)
      [] layout = "geo" -> geo(nt, group_by, sort_by)
      [] layout = "matrix" -> matrix(nt, group_by, sort_by, "x")

\* node_glyphs: one Circle per row; pos[r] fails for a node without position
node_glyphs(nt, pos, node_color, alpha, size) ==
    IF \E i \in 1..Len(nt) : nt[i].node \notin DOMAIN pos
    THEN RaisedAbout("KeyError",
             nt[CHOOSE i \in 1..Len(nt) :
                    /\ nt[i].node \notin DOMAIN pos
                    /\ \A j \in 1..(i - 1) : nt[j].node \in DOMAIN pos].node)
    ELSE Returned([node \in NodeSet(nt) |->
             LET r == RowOf(nt, node)
             IN  [xy |-> pos[node], fc |-> node_color[r],
                  alpha |-> alpha[r], radius |-> size[r]]])

\* draw with the caller's size_scale applied under the square root
draw_ScaleInsideRoot(nt, layout, group_by, sort_by, color_by, alpha_by, size_by, encodings_kwargs) ==
    { IF made.status = "raise" THEN made
      ELSE LET pos == made.value
               node_color == node_colors(nt, color_by)
               alpha == [i \in 1..Len(nt) |->
                            nodes_transparency(nt, alpha_by,
                                encodings_kwargs.alpha_bounds)[i]
                                * encodings_kwargs.alpha_scale]
               size == [i \in 1..Len(nt) |->
                           IF size_by # None
                           THEN Sqrt(encodings_kwargs.size_scale * nt[i].value
                                         * Scale * Scale)
                           ELSE encodings_kwargs.size_scale * Scale]
               patches == node_glyphs(nt, pos, node_color.value, alpha, size)
           IN  IF node_color.status = "raise" THEN node_color
               ELSE IF patches.status = "raise" THEN patches
               ELSE Returned([pos |-> pos, patches |-> patches.value]) :
        made \in layout_func(layout, nt, group_by, sort_by) }

\* draw of nodes.py on the node table of G.  The result is the position map
\* it returns together with the patches it adds to the axes; the layout
\* raises first, then the colours, then the glyphs.
draw(nt, layout, group_by, sort_by, color_by, alpha_by, size_by, encodings_kwargs) ==
    { IF made.status = "raise" THEN made
      ELSE LET pos == made.value
               node_color == node_colors(nt, color_by)
               alpha == [i \in 1..Len(nt) |->
                            nodes_transparency(nt, alpha_by,
                                encodings_kwargs.alpha_bounds)[i]
                                * encodings_kwargs.alpha_scale]
               size == [i \in 1..Len(nt) |->
                           node_size(nt, size_by)[i]
                               * encodings_kwargs.size_scale]
               patches == node_glyphs(nt, pos, node_color.value, alpha, size)
           IN  IF node_color.status = "raise" THEN node_color
               ELSE IF patches.status = "raise" THEN patches
               ELSE Returned([pos |-> pos, patches |-> patches.value]) :
        made \in layout_func(layout, nt, group_by, sort_by) }

----------------------------------------------------------------------------
(* nxviz/nodes.py: the encodings_kwargs dictionary across calls of draw    *)

\* encodings_kwargs as its owner holds it: each key is absent (<<>>) or
\* present (<<value>>); made tells whether the owner has built it yet
NoKwargs ==
    [made |-> FALSE, size_scale |-> <<>>, alpha_scale |-> <<>>,
     alpha_bounds |-> <<>>]

\* no call is remembered
NoCall == [made |-> FALSE, args |-> <<>>, ret |-> <<>>]

\* dict.pop(key, default) on one key: the value handed out
Pop(entry, default) == IF entry = <<>> THEN default ELSE entry[1]

\* the values that the three pops of draw hand out
Popped(d) ==
    [size_scale |-> Pop(d.size_scale, 1),
     alpha_scale |-> Pop(d.alpha_scale, 1),
     alpha_bounds |-> Pop(d.alpha_bounds, <<>>)]

\* the owner's dictionary after a draw that pops from the dictionary it
\* was handed: the three keys are gone
kwargs_after_draw_NoCopy(d) ==
    [d EXCEPT !.size_scale = <<>>, !.alpha_scale = <<>>,
              !.alpha_bounds = <<>>]

\* the owner's dictionary after draw: draw pops from a deepcopy, which
\* leaves the dictionary it was handed as it was
kwargs_after_draw(d) == d

----------------------------------------------------------------------------
(* nxviz/edges.py                                                          *)

\* the edge table of utils.edge_table: one row per edge
EdgeTables ==
    UNION { { [i \in 1..n |-> [source |-> i, target |-> i + 1,
                               weight |-> w[i]]] :
                w \in [1..n -> 1..MaxValue] } : n \in 0..MaxNodes }

\* alpha_func(d): the default transparency
alpha_func(d) == Scale \div 10

\* transparency of edges.py, with the default alpha_func
edges_transparency(et, alpha_by) ==
    IF alpha_by # None THEN [i \in 1..Len(et) |-> alpha_func(et[i].weight)]
    ELSE [i \in 1..Len(et) |-> Scale]

----------------------------------------------------------------------------
(* nxviz/lines.py: hive.  edges.hive (lines 198-258) runs the same loop.   *)

\* rad: to_polar of every position of a map
Rad(pos) ==
    [node \in DOMAIN pos |-> to_polar(pos[node][1], pos[node][2], "radians")]

\* product(starts, ends) as a list of <<start, end>>
Product(starts, ends) ==
    << <<starts[1], ends[1]>>, <<starts[1], ends[2]>>,
       <<starts[2], ends[1]>>, <<starts[2], ends[2]>> >>

\* to_radians(abs(min([end - start, start - end]))): the difference is a
\* number of radians below 180, which to_proper_degrees keeps, and to_radians
\* multiplies it by pi/180; the factor is left out, it changes no comparison
HiveAngle(start, end) == Abs(Min(end - start, start - end))

\* no pair found yet: smallest_pair is None, smallest_nonzero_angle is inf
NoPair == [found |-> FALSE, angle |-> 0, pair |-> <<0, 0>>]

\* one pass of the loop over the combinations, a later combination of equal
\* angle taking the place of an earlier one
HiveStep_LastWins(smallest, combo) ==
    LET corrected == correct_hive_angles(combo[1], combo[2])
        start == corrected[1]
        end == corrected[2]
        angle == HiveAngle(start, end)
    IN  IF end - start # 0 /\ (~smallest.found \/ angle <= smallest.angle)
        THEN [found |-> TRUE, angle |-> Abs(angle), pair |-> <<start, end>>]
        ELSE smallest

\* one pass of the loop over the combinations (lines 136-142)
HiveStep(smallest, combo) ==
    LET corrected == correct_hive_angles(combo[1], combo[2])
        start == corrected[1]
        end == corrected[2]
        angle == HiveAngle(start, end)
    IN  IF end - start # 0 /\ (~smallest.found \/ angle < smallest.angle)
        THEN [found |-> TRUE, angle |-> Abs(angle), pair |-> <<start, end>>]
        ELSE smallest

\* the loop over the four combinations
SmallestPair(starts, ends) ==
    LET combos == Product(starts, ends)
    IN  HiveStep(HiveStep(HiveStep(HiveStep(NoPair, combos[1]), combos[2]),
                          combos[3]), combos[4])

\* np.mean of two angles, rounded down to a whole step
Mean(a, b) == (a + b) \div 2

\* the patch of edge row r with no row skipped: a row without a pair gets
\* a curve between the angles of NoPair
HivePatch_NoSkip(et, r, rad, rad_cloned, curves) ==
    LET d == et[r]
        smallest == SmallestPair(<<rad[d.source][2], rad_cloned[d.source][2]>>,
                                 <<rad[d.target][2], rad_cloned[d.target][2]>>)
        first == to_cartesian(rad[d.source][1], smallest.pair[1])
        final == to_cartesian(rad[d.target][1], smallest.pair[2])
    IN  << [row |-> r,
            start |-> <<rad[d.source][1], smallest.pair[1]>>,
            end |-> <<rad[d.target][1], smallest.pair[2]>>,
            verts |-> <<first, final>>] >>

\* the patch of edge row r, or <<>> when the row is skipped; start and end
\* are the (radius, theta) pairs that the control points are made of
HivePatch(et, r, rad, rad_cloned, curves) ==
    LET d == et[r]
        source == rad[d.source]
        target == rad[d.target]
        start_radius == source[1]
        end_radius == target[1]
        starts == <<source[2], rad_cloned[d.source][2]>>
        ends == <<target[2], rad_cloned[d.target][2]>>
        smallest == SmallestPair(starts, ends)
        start_theta == smallest.pair[1]
        end_theta == IF smallest.pair[2] = 0 THEN TwoPI ELSE smallest.pair[2]
        middle_theta == Mean(start_theta, end_theta)
        first == to_cartesian(start_radius, start_theta)
        final == to_cartesian(end_radius, end_theta)
    IN  IF ~smallest.found THEN <<>>
        ELSE << [row |-> r,
                 start |-> <<start_radius, start_theta>>,
                 end |-> <<end_radius, end_theta>>,
                 verts |-> IF curves
                           THEN <<first,
                                  to_cartesian(start_radius, middle_theta),
                                  to_cartesian(end_radius, middle_theta),
                                  final>>
                           ELSE <<first, final>>] >>

RECURSIVE HivePatches(_, _, _, _, _)
HivePatches(et, r, rad, rad_cloned, curves) ==
    IF r > Len(et) THEN <<>>
    ELSE HivePatch(et, r, rad, rad_cloned, curves)
             \o HivePatches(et, r + 1, rad, rad_cloned, curves)

\* lines.hive: the patches of the edge table, in row order; pos_cloned is
\* <<>> when None, <<map>> when given; a node without a position is a KeyError
lines_hive(et, pos, pos_cloned, curves) ==
    LET cloned == IF pos_cloned = <<>> THEN pos ELSE pos_cloned[1]
        missing == {r \in 1..Len(et) :
                       \/ {et[r].source, et[r].target} \ DOMAIN pos # {}
                       \/ {et[r].source, et[r].target} \ DOMAIN cloned # {}}
    IN  IF missing # {} THEN Raised("KeyError")
        ELSE Returned(HivePatches(et, 1, Rad(pos), Rad(cloned), curves))

\* numpy.rad2deg on an angle in steps
rad2deg(theta) == (theta * HalfTurn) \div PI

\* lines.arc: one Arc per edge row; a node without a position is a KeyError
lines_arc(et, pos) ==
    IF \E r \in 1..Len(et) : {et[r].source, et[r].target} \ DOMAIN pos # {}
    THEN Raised("KeyError")
    ELSE Returned([r \in 1..Len(et) |->
            LET start == pos[et[r].source]
                end == pos[et[r].target]
                middle_x == Mean(start[1], end[1])
                middle_y == Mean(start[2], end[2])
                width == Abs(end[1] - start[1])
                theta1 == rad2deg(to_polar(start[1] - middle_x,
                                           start[2] - middle_y, "radians")[2])
                theta2 == rad2deg(to_polar(end[1] - middle_x,
                                           end[2] - middle_y, "radians")[2])
            IN  [xy |-> <<middle_x, middle_y>>,
                 width |-> width, height |-> width,
                 theta1 |-> Min(theta1, theta2),
                 theta2 |-> Max(theta1, theta2)]])

\* edges.arc: the same Arc with the fixed angles 0 and 180
edges_arc(et, pos) ==
    IF \E r \in 1..Len(et) : {et[r].source, et[r].target} \ DOMAIN pos # {}
    THEN Raised("KeyError")
    ELSE Returned([r \in 1..Len(et) |->
            LET start == pos[et[r].source]
                end == pos[et[r].target]
                width == Abs(end[1] - start[1])
            IN  [xy |-> <<Mean(start[1], end[1]), Mean(start[2], end[2])>>,
                 width |-> width, height |-> width,
                 theta1 |-> 0, theta2 |-> HalfTurn]])

\* lines.matrix with the radius of row r equal to 1
lines_matrix_UnitRadius(et, pos, pos_cloned, lw) ==
    IF \E r \in 1..Len(et) :
           et[r].source \notin DOMAIN pos_cloned \/ et[r].target \notin DOMAIN pos
    THEN Raised("KeyError")
    ELSE Returned([r \in 1..Len(et) |->
            LET start == pos_cloned[et[r].source]
                end == pos[et[r].target]
            IN  [xy |-> <<Max(start[1], start[2]), Max(end[1], end[2])>>,
                 radius |-> 1]])

\* lines.matrix: one Circle per edge row; a node without a position is a
\* KeyError
lines_matrix(et, pos, pos_cloned, lw) ==
    IF \E r \in 1..Len(et) :
           et[r].source \notin DOMAIN pos_cloned \/ et[r].target \notin DOMAIN pos
    THEN Raised("KeyError")
    ELSE Returned([r \in 1..Len(et) |->
            LET start == pos_cloned[et[r].source]
                end == pos[et[r].target]
            IN  [xy |-> <<Max(start[1], start[2]), Max(end[1], end[2])>>,
                 radius |-> lw[r]]])

----------------------------------------------------------------------------
(* The calls.                                                              *)

Radii == 0..MaxR

Angles == (-MaxTurns * PI)..(MaxTurns * PI)

ToCartesian ==
    /\ op = "init"
    /\ UNCHANGED <<kwargs, earlier>>
    /\ \E r \in Radii, theta \in Angles :
        /\ op' = "to_cartesian"
        /\ args' = [r |-> r, theta |-> theta]
        /\ ret' = Returned(to_cartesian(r, theta))

\* tests/test_polcart.py, test_convert_rt: to_cartesian followed by to_polar
ConvertRt ==
    /\ op = "init"
    /\ UNCHANGED <<kwargs, earlier>>
    /\ \E r \in Radii \ {0}, theta \in 0..(TwoPI - 1) :
        /\ op' = "convert_rt"
        /\ args' = [r |-> r, theta |-> theta]
        /\ ret' = LET xy == to_cartesian(r, theta)
                  IN  Returned(to_polar(xy[1], xy[2], "radians"))

\* x and y are whole numbers; r is returned scaled by Scale
ToPolar ==
    /\ op = "init"
    /\ UNCHANGED <<kwargs, earlier>>
    /\ \E x \in -MaxR..MaxR, y \in -MaxR..MaxR,
          theta_units \in {"radians", "degrees"} :
        /\ op' = "to_polar"
        /\ args' = [x |-> x, y |-> y, theta_units |-> theta_units]
        /\ ret' = Returned(to_polar(x * Scale, y * Scale, theta_units))

\* the angles in degrees handed to the converters
Degrees == (-MaxTurns * HalfTurn)..(MaxTurns * HalfTurn)

ToProperRadians ==
    /\ op = "init"
    /\ UNCHANGED <<kwargs, earlier>>
    /\ \E theta \in Angles :
        /\ op' = "to_proper_radians"
        /\ args' = [theta |-> theta]
        /\ ret' = Returned(to_proper_radians(theta))

ToProperDegrees ==
    /\ op = "init"
    /\ UNCHANGED <<kwargs, earlier>>
    /\ \E theta \in Degrees :
        /\ op' = "to_proper_degrees"
        /\ args' = [theta |-> theta]
        /\ ret' = Returned(to_proper_degrees(theta))

ToDegrees ==
    /\ op = "init"
    /\ UNCHANGED <<kwargs, earlier>>
    /\ \E theta \in Angles :
        /\ op' = "to_degrees"
        /\ args' = [theta |-> theta]
        /\ ret' = Returned(to_degrees(theta))

ToRadians ==
    /\ op = "init"
    /\ UNCHANGED <<kwargs, earlier>>
    /\ \E theta \in Degrees :
        /\ op' = "to_radians"
        /\ args' = [theta |-> theta]
        /\ ret' = Returned(to_radians(theta))

GroupBys == {None, "group"}

SortBys == {None, "value"}

GroupAndSort ==
    /\ op = "init"
    /\ UNCHANGED <<kwargs, earlier>>
    /\ \E nt \in Tables, group_by \in GroupBys, sort_by \in SortBys :
        \E res \in group_and_sort(nt, group_by, sort_by) :
            /\ op' = "group_and_sort"
            /\ args' = [nt |-> nt, group_by |-> group_by, sort_by |-> sort_by]
            /\ ret' = Returned(res)
Parallel ==
    /\ op = "init"
    /\ UNCHANGED <<kwargs, earlier>>
    /\ \E nt \in Tables, sort_by \in SortBys :
        \E res \in parallel(nt, "group", sort_by) :
            /\ op' = "parallel"
            /\ args' = [nt |-> nt, group_by |-> "group", sort_by |-> sort_by]
            /\ ret' = res

Circos ==
    /\ op = "init"
    /\ UNCHANGED <<kwargs, earlier>>
    /\ \E nt \in Tables, group_by \in GroupBys, sort_by \in SortBys,
       radius \in {<<>>, <<2>>} :
        \E res \in circos(nt, group_by, sort_by, radius) :
            /\ op' = "circos"
            /\ args' = [nt |-> nt, group_by |-> group_by,
                        sort_by |-> sort_by, radius |-> radius]
            /\ ret' = res

Hive ==
    /\ op = "init"
    /\ UNCHANGED <<kwargs, earlier>>
    /\ \E nt \in Tables, sort_by \in SortBys, inner_radius \in {1, 8},
       rotation \in {0, PI \div 6} :
        \E res \in hive(nt, "group", sort_by, inner_radius, rotation) :
            /\ op' = "hive"
            /\ args' = [nt |-> nt, group_by |-> "group", sort_by |-> sort_by,
                        inner_radius |-> inner_radius, rotation |-> rotation]
            /\ ret' = res

Arc ==
    /\ op = "init"
    /\ UNCHANGED <<kwargs, earlier>>
    /\ \E nt \in Tables, group_by \in GroupBys, sort_by \in SortBys :
        \E res \in arc(nt, group_by, sort_by) :
            /\ op' = "arc"
            /\ args' = [nt |-> nt, group_by |-> group_by, sort_by |-> sort_by]
            /\ ret' = res

Geo ==
    /\ op = "init"
    /\ UNCHANGED <<kwargs, earlier>>
    /\ \E nt \in Tables :
        \E res \in geo(nt, None, None) :
            /\ op' = "geo"
            /\ args' = [nt |-> nt, group_by |-> None, sort_by |-> None]
            /\ ret' = res

Matrix ==
    /\ op = "init"
    /\ UNCHANGED <<kwargs, earlier>>
    /\ \E nt \in Tables, group_by \in GroupBys, sort_by \in SortBys,
       axis \in {"x", "y"} :
        \E res \in matrix(nt, group_by, sort_by, axis) :
            /\ op' = "matrix"
            /\ args' = [nt |-> nt, group_by |-> group_by,
                        sort_by |-> sort_by, axis |-> axis]
            /\ ret' = res

\* the lists handed to item_theta, with and without repeated items
ItemLists == UNION {[1..n -> 1..MaxItems] : n \in 0..MaxItems}

ItemTheta ==
    /\ op = "init"
    /\ UNCHANGED <<kwargs, earlier>>
    /\ \E nodelist \in ItemLists, node \in 1..(MaxItems + 1) :
        /\ op' = "item_theta"
        /\ args' = [nodelist |-> nodelist, node |-> node]
        /\ ret' = item_theta(nodelist, node)

\* the node radii handed to circos_radius; the default is 1
NodeRadii == {1, 2}

CircosRadius ==
    /\ op = "init"
    /\ UNCHANGED <<kwargs, earlier>>
    /\ \E n_nodes \in 0..(MaxRows + 1), node_radius \in NodeRadii :
        /\ op' = "circos_radius"
        /\ args' = [n_nodes |-> n_nodes, node_radius |-> node_radius]
        /\ ret' = circos_radius(n_nodes, node_radius)

\* alpha_bounds: not given, or a tuple (lower, upper) in either order
AlphaBounds == {<<>>} \cup ((0..MaxValue) \X (0..MaxValue))

AlphaBys == {None, "value"}

NodesTransparency ==
    /\ op = "init"
    /\ UNCHANGED <<kwargs, earlier>>
    /\ \E nt \in Tables, alpha_by \in AlphaBys, alpha_bounds \in AlphaBounds :
        /\ op' = "nodes.transparency"
        /\ args' = [nt |-> nt, alpha_by |-> alpha_by,
                    alpha_bounds |-> alpha_bounds]
        /\ ret' = Returned(nodes_transparency(nt, alpha_by, alpha_bounds))

EdgesTransparency ==
    /\ op = "init"
    /\ UNCHANGED <<kwargs, earlier>>
    /\ \E et \in EdgeTables, alpha_by \in {None, "weight"} :
        /\ op' = "edges.transparency"
        /\ args' = [et |-> et, alpha_by |-> alpha_by]
        /\ ret' = Returned(edges_transparency(et, alpha_by))

\* tests/test_encodings.py, test_data_size; here also with a reference
\* column other than the data
DataSize ==
    /\ op = "init"
    /\ UNCHANGED <<kwargs, earlier>>
    /\ \E data \in Tables, ref_data \in {DummyTable, ManyGroupTable} :
        /\ op' = "data_size"
        /\ args' = [data |-> ValueColumn(data),
                    ref_data |-> ValueColumn(ref_data)]
        /\ ret' = Returned(data_size(ValueColumn(data), ValueColumn(ref_data)))

NodeSize ==
    /\ op = "init"
    /\ UNCHANGED <<kwargs, earlier>>
    /\ \E nt \in Tables, size_by \in {None, "value"} :
        /\ op' = "node_size"
        /\ args' = [nt |-> nt, size_by |-> size_by]
        /\ ret' = Returned(node_size(nt, size_by))

\* the node tables that draw is called on: the fixtures and the tables of
\* up to two rows
DrawTables == {nt \in Tables : Len(nt) <= 2 \/ nt \in {DummyTable, ManyGroupTable}}

\* the size_scale of encodings_kwargs; the default is 1
SizeScales == {1, 2}

Draw ==
    /\ op = "init"
    /\ UNCHANGED <<kwargs, earlier>>
    /\ \E nt \in DrawTables, layout \in {"parallel", "circos", "hive", "arc", "geo", "matrix"},
          sort_by \in SortBys, color_by \in {None, "value"},
          alpha_by \in AlphaBys, size_by \in {None, "value"},
          size_scale \in SizeScales :
        \E group_by \in (IF layout \in {"parallel", "hive"} THEN {"group"}
                         ELSE GroupBys) :
            LET encodings_kwargs == [size_scale |-> size_scale,
                                     alpha_scale |-> 1, alpha_bounds |-> <<>>]
            IN  \E res \in draw(nt, layout, group_by, sort_by, color_by,
                                alpha_by, size_by, encodings_kwargs) :
                    /\ op' = "draw"
                    /\ args' = [nt |-> nt, layout_func |-> layout,
                                group_by |-> group_by, sort_by |-> sort_by,
                                color_by |-> color_by, alpha_by |-> alpha_by,
                                size_by |-> size_by,
                                encodings_kwargs |-> encodings_kwargs]
                    /\ ret' = res

\* the owner of encodings_kwargs builds the dictionary: a caller, or a
\* functools.partial such as nodes.hive that binds size_scale
MakeKwargs ==
    /\ op = "init"
    /\ ~kwargs.made
    /\ \E size_scale \in {<<>>} \cup {<<s>> : s \in SizeScales},
          alpha_scale \in {<<>>, <<1>>},
          alpha_bounds \in {<<>>, << <<0, MaxValue>> >>} :
        kwargs' = [made |-> TRUE, size_scale |-> size_scale,
                   alpha_scale |-> alpha_scale, alpha_bounds |-> alpha_bounds]
    /\ UNCHANGED <<op, args, ret, earlier>>

\* the layout calls whose order of rows does not hang on how ties of a
\* single sort key are broken: <<layout, group_by, sort_by>>
RepeatableLayouts ==
    ({"circos", "arc", "geo", "matrix"} \X {None} \X {None})
        \cup ({"circos", "arc", "matrix", "hive"} \X {"group"} \X {"value"})
        \cup {<<"parallel", "group", None>>}

\* the node tables drawn repeatedly: the first three nodes of make_dummyG,
\* one per group, and manygroupG
SessionTables == {SubSeq(DummyTable, 1, 3), ManyGroupTable}

\* nodes.draw called with the dictionary that its owner holds
NodesDraw ==
    /\ op = "init"
    /\ kwargs.made
    /\ \E nt \in SessionTables, call \in RepeatableLayouts,
          alpha_by \in AlphaBys, size_by \in {None, "value"} :
        \E res \in draw(nt, call[1], call[2], call[3], None, alpha_by,
                        size_by, Popped(kwargs)) :
            /\ op' = "nodes.draw"
            /\ args' = [nt |-> nt, layout_func |-> call[1],
                        group_by |-> call[2], sort_by |-> call[3],
                        color_by |-> None, alpha_by |-> alpha_by,
                        size_by |-> size_by, encodings_kwargs |-> kwargs]
            /\ ret' = res
    /\ kwargs' = kwargs_after_draw(kwargs)
    /\ UNCHANGED earlier

\* the call just made is the one to compare later calls with
Remember ==
    /\ op = "nodes.draw"
    /\ earlier' = [made |-> TRUE, args |-> args, ret |-> ret]
    /\ UNCHANGED <<op, args, ret, kwargs>>

\* the angles handed to correct_hive_angles: from -pi to 2*pi
HiveAngles == (-PI)..TwoPI

CorrectHiveAngles ==
    /\ op = "init"
    /\ UNCHANGED <<kwargs, earlier>>
    /\ \E start \in HiveAngles, end \in HiveAngles :
        /\ op' = "correct_hive_angles"
        /\ args' = [start |-> start, end |-> end]
        /\ ret' = Returned(correct_hive_angles(start, end))


InferDataFamily ==
    /\ op = "init"
    /\ UNCHANGED <<kwargs, earlier>>
    /\ \E data \in Columns :
        /\ op' = "infer_data_family"
        /\ args' = [data |-> data]
        /\ ret' = Returned(infer_data_family(data))

DataCmap ==
    /\ op = "init"
    /\ UNCHANGED <<kwargs, earlier>>
    /\ \E data \in Columns :
        \E palette \in Palettes(data) :
            /\ op' = "data_cmap"
            /\ args' = [data |-> data, palette |-> palette]
            /\ ret' = data_cmap(data, palette)

DataColor ==
    /\ op = "init"
    /\ UNCHANGED <<kwargs, earlier>>
    /\ \E data \in Columns :
        \E palette \in Palettes(data) :
            /\ op' = "data_color"
            /\ args' = [data |-> data, ref_data |-> data, palette |-> palette]
            /\ ret' = data_color(data, data, palette)

\* nodes of the hive plots
HiveNodes == 1..3

\* node radii along a ray
HiveRadii == {1, 2}

\* the rays of three groups: item_theta of ["a", "b", "c"], in (-pi, pi]
HiveRays == {0, TwoPI \div 3, -(TwoPI \div 3)}

\* a position map: node n at radius polar[n][1], angle polar[n][2] + rotation
HivePositions(polar, rotation) ==
    [n \in DOMAIN polar |->
        <<polar[n][1] * Cos(polar[n][2] + rotation),
          polar[n][1] * Sin(polar[n][2] + rotation)>>]

\* the rotation of the cloned hive layout (nxviz/__init__.py)
ClonedRotation == PI \div 6

\* edge tables of up to two rows, self loops included; the first row
\* leaves node 1, the second row starts where the first one ends, and a
\* node is named only after the nodes below it
HiveEdgeTables ==
    LET Rows == [source : HiveNodes, target : HiveNodes]
    IN  {et \in UNION { [1..n -> Rows] : n \in 0..2 } :
            /\ Len(et) >= 1 => et[1].source = 1 /\ et[1].target <= 2
            /\ Len(et) = 2 => /\ et[2].source = et[1].target
                              /\ et[2].target <= et[1].target + 1}

LinesHive ==
    /\ op = "init"
    /\ UNCHANGED <<kwargs, earlier>>
    /\ \E polar \in [HiveNodes -> HiveRadii \X HiveRays], clone \in BOOLEAN :
        \E et \in HiveEdgeTables, curves \in BOOLEAN :
            LET pos == HivePositions(polar, 0)
                pos_cloned == IF clone
                              THEN <<HivePositions(polar, ClonedRotation)>>
                              ELSE <<>>
            IN  /\ op' = "lines.hive"
                /\ args' = [et |-> et, pos |-> pos, pos_cloned |-> pos_cloned,
                            curves |-> curves]
                /\ ret' = lines_hive(et, pos, pos_cloned, curves)
\* edge tables over the nodes of a position map: no row, one row, or a row
\* and its reverse
FlatEdgeTables(nodes) ==
    LET Rows == [source : nodes, target : nodes]
    IN  {<<>>} \cup {<<row>> : row \in Rows}
            \cup {<<row, [source |-> row.target, target |-> row.source]>> :
                      row \in Rows}

LinesArc ==
    /\ op = "init"
    /\ UNCHANGED <<kwargs, earlier>>
    /\ \E nt \in Tables :
        \E laid \in arc(nt, None, None) :
            \E et \in FlatEdgeTables(DOMAIN laid.value) :
                /\ op' = "lines.arc"
                /\ args' = [nt |-> nt, et |-> et, pos |-> laid.value]
                /\ ret' = lines_arc(et, laid.value)

EdgesArc ==
    /\ op = "init"
    /\ UNCHANGED <<kwargs, earlier>>
    /\ \E nt \in Tables :
        \E laid \in arc(nt, None, None) :
            \E et \in FlatEdgeTables(DOMAIN laid.value) :
                /\ op' = "edges.arc"
                /\ args' = [nt |-> nt, et |-> et, pos |-> laid.value]
                /\ ret' = edges_arc(et, laid.value)

\* the line widths of the edge rows
LineWidths(et) == [1..Len(et) -> 1..MaxValue]

LinesMatrix ==
    /\ op = "init"
    /\ UNCHANGED <<kwargs, earlier>>
    /\ \E nt \in Tables :
        \E laid \in matrix(nt, None, None, "x"),
           cloned \in matrix(nt, None, None, "y") :
            \E et \in FlatEdgeTables(DOMAIN laid.value) :
                \E lw \in LineWidths(et) :
                    /\ op' = "lines.matrix"
                    /\ args' = [nt |-> nt, et |-> et, pos |-> laid.value,
                                pos_cloned |-> cloned.value, lw |-> lw]
                    /\ ret' = lines_matrix(et, laid.value, cloned.value, lw)

Init ==
    /\ op = "init"
    /\ args = <<>>
    /\ ret = <<>>
    /\ kwargs = NoKwargs
    /\ earlier = NoCall

\* the call is over; the library keeps nothing of it
Return ==
    /\ op # "init"
    /\ op' = "init"
    /\ args' = <<>>
    /\ ret' = <<>>
    /\ UNCHANGED <<kwargs, earlier>>

NextPolcart ==
    \/ ToCartesian \/ ConvertRt \/ ToPolar
    \/ ToProperRadians \/ ToProperDegrees \/ ToDegrees \/ ToRadians
    \/ Return

SpecPolcart == Init /\ [][NextPolcart]_vars

NextLayouts ==
    \/ GroupAndSort
    \/ Parallel \/ Circos \/ Hive \/ Arc \/ Geo \/ Matrix
    \/ CircosRadius
    \/ Return

SpecLayouts == Init /\ [][NextLayouts]_vars

NextGeometry == CorrectHiveAngles \/ ItemTheta \/ CircosRadius \/ Return

SpecGeometry == Init /\ [][NextGeometry]_vars

NextEncodings == InferDataFamily \/ DataCmap \/ DataColor \/ Return

SpecEncodings == Init /\ [][NextEncodings]_vars

NextNodes ==
    \/ NodesTransparency \/ EdgesTransparency
    \/ DataSize \/ NodeSize \/ Draw
    \/ Return

SpecNodes == Init /\ [][NextNodes]_vars

----------------------------------------------------------------------------
NextLines == LinesHive \/ Return

SpecLines == Init /\ [][NextLines]_vars

NextFlatLines == LinesArc \/ EdgesArc \/ LinesMatrix \/ Return

SpecFlatLines == Init /\ [][NextFlatLines]_vars

NextSession == MakeKwargs \/ NodesDraw \/ Remember \/ Return

SpecSession == Init /\ [][NextSession]_vars

----------------------------------------------------------------------------
(* C1: for every finite r and theta, to_cartesian(r, theta) returns        *)
(* (r*cos(theta), r*sin(theta)): the point lies in the direction theta.    *)
C1_ToCartesianDirection ==
    op = "to_cartesian" =>
        ret.value = <<args.r * Cos(args.theta), args.r * Sin(args.theta)>>

\* a coordinate or radius a (scaled by Scale) is within rounding of b
Close(a, b) == Abs(a - b) <= 2 * MaxR

(* C2: round trip: for r > 0 and theta in [0, 2*pi),                       *)
(* to_polar(to_cartesian(r, theta)) returns (r, theta) up to tolerance.    *)
C2_RoundTrip ==
    op = "convert_rt" =>
        /\ Close(ret.value[1], args.r * Scale)
        /\ ret.value[2] = args.theta

Layouts == {"parallel", "circos", "hive", "arc", "geo", "matrix"}

(* C3: circular layout: for n nodes (n >= 3) layouts.circos places the     *)
(* i-th node of the group+sort order at angle i*2*pi/n on a circle of one  *)
(* common radius (the given one, or circos_radius(n)), and the centroid of *)
(* all positions is the origin.                                            *)
C3_CircosEvenlySpaced ==
    (op = "circos" /\ ret.status = "ok" /\ Len(args.nt) >= 3) =>
        LET n == Len(args.nt)
            pos == ret.value
            r == IF args.radius = <<>> THEN circos_radius(n, 1).value
                 ELSE args.radius[1] * Scale
            xs == [node \in DOMAIN pos |-> pos[node][1]]
            ys == [node \in DOMAIN pos |-> pos[node][2]]
        IN  /\ \E nt \in group_and_sort(args.nt, args.group_by, args.sort_by) :
                \A i \in 1..n :
                    LET theta == ((i - 1) * TwoPI) \div n
                    IN  /\ nt[i].node \in DOMAIN pos
                        /\ pos[nt[i].node] = <<r * Cos(theta), r * Sin(theta)>>
            /\ Abs(Sum(xs, DOMAIN pos)) <= n * r
            /\ Abs(Sum(ys, DOMAIN pos)) <= n * r

(* C4: position-map completeness: when a layout function returns, the key  *)
(* set of the map is exactly the set of node ids of the table, also when   *)
(* group_by is given and some node lacks a value for the group attribute.  *)
C4_PositionMapComplete ==
    (op \in Layouts /\ ret.status = "ok") =>
        DOMAIN ret.value = NodeSet(args.nt)

\* the direction of a position, as an angle in [0, 2*pi)
Direction(xy) == Atan2(xy[2], xy[1]) % TwoPI

(* C5: hive geometry: with at most 3 groups, the nodes of one group lie on *)
(* one ray from the origin, the rays of different groups are 2*pi/3 apart, *)
(* and the j-th node of a group in sort order lies at distance             *)
(* 2*(inner_radius + j) from the origin.                                   *)
C5_HiveGeometry ==
    (op = "hive" /\ ret.status = "ok") =>
        LET pos == ret.value
        IN  \E nt \in group_and_sort(args.nt, args.group_by, args.sort_by) :
                \A a, b \in DOMAIN pos :
                    LET ra == RowOf(nt, a)
                        rb == RowOf(nt, b)
                        apart == (Direction(pos[b]) - Direction(pos[a]))
                                     % TwoPI
                        dist == 2 * (args.inner_radius + RankInGroup(nt, ra))
                    IN  /\ nt[ra].group = nt[rb].group => apart = 0
                        /\ nt[ra].group # nt[rb].group =>
                               apart \in {TwoPI \div 3, 2 * (TwoPI \div 3)}
                        /\ Abs(Sqrt(pos[a][1] * pos[a][1]
                                    + pos[a][2] * pos[a][2])
                               - dist * Scale) <= dist

(* C6: layouts.hive raises ValueError if and only if the group_by column   *)
(* has more than 3 distinct values; nothing is returned when it raises,    *)
(* and a table with 1, 2 or 3 groups gets a complete map.                  *)
C6_HiveTooManyGroups ==
    op = "hive" =>
        LET distinct == {args.nt[i].group : i \in 1..Len(args.nt)} \ {NaN}
        IN  /\ (ret.status = "raise") = (Cardinality(distinct) > 3)
            /\ ret.status = "raise" => ret.exc = "ValueError"
            /\ (ret.status = "ok" /\ Cardinality(distinct) \in 1..3) =>
                   DOMAIN ret.value = NodeSet(args.nt)

\* the four rules of correct_hive_angles, each on a pair <<start, end>>
HiveRule1(p) == IF p[1] > PI /\ p[2] = 0 THEN <<p[1], TwoPI>> ELSE p

HiveRule2(p) == IF p[1] < PI /\ p[2] = 0 THEN <<p[2], p[1]>> ELSE p

HiveRule3(p) == IF p[2] < PI /\ p[1] = TwoPI THEN <<0, p[2]>> ELSE p

HiveRule4(p) == IF p[2] > PI /\ p[1] = 0 THEN <<TwoPI, p[2]>> ELSE p

(* C7: correct_hive_angles(start, end) is the result of the four rules     *)
(* applied in order, each reading the values the previous ones left; in    *)
(* particular a start beyond pi with end = 0 gives (start, 2*pi), and a    *)
(* start below pi with end = 0 gives (0, start).                           *)
C7_HiveAngleRules ==
    op = "correct_hive_angles" =>
        /\ ret.value =
               HiveRule4(HiveRule3(HiveRule2(HiveRule1(
                   <<args.start, args.end>>))))
        /\ (args.start > PI /\ args.end = 0) =>
               ret.value = <<args.start, TwoPI>>
        /\ (args.start < PI /\ args.end = 0) =>
               ret.value = <<0, args.start>>

\* the swap of rule 2 fired on a start strictly between 0 and pi
C7_Witness ==
    /\ op = "correct_hive_angles"
    /\ args.start > 0 /\ args.start < PI /\ args.end = 0
    /\ ret.value = <<0, args.start>>

(* C8: shorter path: for start, end in [0, 2*pi] with at least one of them *)
(* on the branch cut (0 or 2*pi), the corrected pair is at most pi apart.  *)
C8_HiveShorterPath ==
    (/\ op = "correct_hive_angles"
     /\ args.start \in 0..TwoPI /\ args.end \in 0..TwoPI
     /\ (args.start \in {0, TwoPI} \/ args.end \in {0, TwoPI})) =>
        Abs(ret.value[2] - ret.value[1]) <= PI

(* C9: infer_data_family classifies a column as divergent if it is         *)
(* floating-point with both a negative and a positive value, else          *)
(* continuous if floating-point, else ordinal if integral with at most 9   *)
(* distinct values, else continuous if integral, otherwise categorical.    *)
C9_InferDataFamily ==
    op = "infer_data_family" =>
        LET data == args.data
            vals == ValueSet(data.values)
        IN  ret.value =
                IF data.dtype = "float"
                     /\ (\E v \in vals : v < 0) /\ (\E v \in vals : v > 0)
                THEN "divergent"
                ELSE IF data.dtype = "float" THEN "continuous"
                ELSE IF data.dtype = "int" /\ Cardinality(vals) <= 9
                     THEN "ordinal"
                ELSE IF data.dtype = "int" THEN "continuous"
                ELSE "categorical"

\* the palette has a colour for every value of the column
Covers(palette, data) ==
    \/ palette.kind = "list" /\ Len(palette.colors) > 0
    \/ palette.kind = "dict" /\ ValueSet(data.values) \subseteq DOMAIN palette.colors

(* C10: colour cap: for a categorical column, data_cmap and data_color     *)
(* raise an error naming the column if and only if the column has more     *)
(* than 12 distinct values and no palette is given; with a palette that    *)
(* covers the values the call succeeds and every value gets a colour.      *)
C10_ColourCap ==
    (op \in {"data_cmap", "data_color"} /\ args.data.dtype = "object") =>
        LET data == args.data
            distinct == Cardinality(ValueSet(data.values))
        IN  /\ (ret.status = "raise" /\ ret.exc = "ValueError"
                    /\ ret.value = data.name)
                   = (distinct > 12 /\ args.palette = NoPalette)
            /\ Covers(args.palette, data) =>
                   /\ ret.status = "ok"
                   /\ op = "data_color" =>
                          DOMAIN ret.value = DOMAIN data.values

\* thirteen categories and no palette: the call raised, naming the column
C10_Witness ==
    /\ op = "data_cmap"
    /\ args.data.dtype = "object"
    /\ Cardinality(ValueSet(args.data.values)) = 13
    /\ args.palette = NoPalette
    /\ ret = RaisedAbout("ValueError", args.data.name)

\* a floating-point column with a negative and a positive value
IsDivergent(data) ==
    /\ data.dtype = "float"
    /\ \E v \in ValueSet(data.values) : v < 0
    /\ \E v \in ValueSet(data.values) : v > 0

(* C11: for a divergent column the colours of data_color are those of      *)
(* divergent_color_func: the diverging colormap, normalised with           *)
(* vmax = -vmin = max(|min|, |max|) of the reference data, so that the     *)
(* value 0 maps to the centre of the colormap.                             *)
C11_DivergentColour ==
    (op = "data_color" /\ IsDivergent(args.ref_data)) =>
        LET ref == args.ref_data
            bound == Max(Abs(SeriesMin(ref.values)), Abs(SeriesMax(ref.values)))
        IN  /\ ret.status = "ok"
            /\ \A i \in DOMAIN args.data.values :
                   LET val == args.data.values[i]
                   IN  /\ ret.value[i] =
                              divergent_color_func(val, NamedCmap("bwr"),
                                                   ref).value
                       /\ ret.value[i][2] = Normalize(-bound, bound, val)
                       /\ val = 0 => ret.value[i][2] = Scale \div 2

(* C12: to_polar(x, y) returns r = sqrt(x^2 + y^2) and the angle           *)
(* atan2(y, x) brought into [0, 2*pi), also for points with y < 0.         *)
C12_ToPolarRange ==
    (op = "to_polar" /\ args.theta_units = "radians") =>
        LET r == ret.value[1]
            theta == ret.value[2]
            sq == (args.x * args.x + args.y * args.y) * Scale * Scale
        IN  /\ r * r <= sq /\ sq < (r + 1) * (r + 1)
            /\ 0 <= theta /\ theta < TwoPI
            /\ theta = Atan2(args.y, args.x) % TwoPI

(* C13: for every finite theta, to_proper_radians and to_radians return a  *)
(* value in [-pi, pi], and to_proper_degrees and to_degrees return a value *)
(* in [-180, 180].                                                         *)
C13_AngleRange ==
    /\ op \in {"to_proper_radians", "to_radians"} =>
           -PI <= ret.value /\ ret.value <= PI
    /\ op \in {"to_proper_degrees", "to_degrees"} =>
           -HalfTurn <= ret.value /\ ret.value <= HalfTurn

\* an angle below -pi was brought into the range
C13_Witness ==
    /\ op = "to_proper_radians"
    /\ args.theta < -PI
    /\ ret.value \in (-PI)..PI /\ ret.value # args.theta

C15_FewerThanThreeRejected ==
    /\ (op = "circos_radius" /\ args.n_nodes < 3) => ret.status = "raise"
    /\ (op = "circos" /\ Len(args.nt) < 3) => ret.status = "raise"

\* every value of the series is the same constant strictly between 0 and 1
PartlyTransparent(series) ==
    \E c \in 1..(Scale - 1) : \A i \in DOMAIN series : series[i] = c

C17_TransparencyNormalised ==
    op = "nodes.transparency" =>
        \A i \in DOMAIN ret.value : 0 <= ret.value[i] /\ ret.value[i] <= Scale

\* s is the square root of v, scaled by Scale and rounded down
IsRootOf(s, v) == s >= 0 /\ s * s <= v * Scale * Scale /\ v * Scale * Scale < (s + 1) * (s + 1)

(* C18: data_size maps each value v to sqrt(v) whatever ref_data is, and   *)
(* nodes.draw applies size_scale after the square root: the drawn radius   *)
(* is size_scale * sqrt(v), and size_scale * 1 with no size attribute.     *)
C18_NodeSize ==
    /\ op = "data_size" =>
           /\ DOMAIN ret.value = DOMAIN args.data
           /\ \A i \in DOMAIN args.data : IsRootOf(ret.value[i], args.data[i])
    /\ (op = "draw" /\ ret.status = "ok") =>
           \A i \in 1..Len(args.nt) :
               LET radius == ret.value.patches[args.nt[i].node].radius
                   size_scale == args.encodings_kwargs.size_scale
               IN  IF args.size_by = None THEN radius = size_scale * Scale
                   ELSE /\ radius % size_scale = 0
                        /\ IsRootOf(radius \div size_scale, args.nt[i].value)

\* a node of value 2 drawn with size_scale 2: the radius is 2*sqrt(2), not
\* sqrt(2*2)
C18_Witness ==
    /\ op = "draw" /\ ret.status = "ok"
    /\ args.size_by = "value" /\ args.encodings_kwargs.size_scale = 2
    /\ \E i \in 1..Len(args.nt) :
        /\ args.nt[i].value = 2
        /\ ret.value.patches[args.nt[i].node].radius = 2 * Sqrt(2 * Scale * Scale)
        /\ ret.value.patches[args.nt[i].node].radius # 2 * Scale

\* a position map with the two coordinates of every position swapped
Swapped(pos) == [node \in DOMAIN pos |-> <<pos[node][2], pos[node][1]>>]

ParallelColumns(pos, nt, sort_by) ==
    \A a \in DOMAIN pos :
        LET ra == RowOf(nt, a)
            group == {b \in DOMAIN pos : nt[RowOf(nt, b)].group = nt[ra].group}
        IN  /\ \A b \in DOMAIN pos : (b \in group) = (pos[b][1] = pos[a][1])
            /\ {pos[b][2] : b \in group} = 0..(Cardinality(group) - 1)
            /\ \A b \in group \ {a} : pos[b][2] # pos[a][2]
            /\ \A b \in group :
                   LET rb == RowOf(nt, b)
                   IN  IF sort_by # None
                       THEN nt[ra].value < nt[rb].value => pos[a][2] < pos[b][2]
                       ELSE ra < rb => pos[a][2] < pos[b][2]

\* the smallest x and y of a non-empty map are 0 and the largest x is max_x
ParallelExtent(pos, max_x) ==
    DOMAIN pos # {} =>
        /\ \E a \in DOMAIN pos : pos[a][1] = 0
        /\ \E a \in DOMAIN pos : pos[a][2] = 0
        /\ \E a \in DOMAIN pos : pos[a][1] = max_x
        /\ \A a \in DOMAIN pos :
               pos[a][1] >= 0 /\ pos[a][2] >= 0 /\ pos[a][1] <= max_x

Before(a, b, group_by, sort_by) ==
    \/ group_by # None /\ Key(a, "group") < Key(b, "group")
    \/ /\ group_by # None => Key(a, "group") = Key(b, "group")
       /\ sort_by # None /\ Key(a, "value") < Key(b, "value")

(* C21: group_and_sort returns a permutation of the input rows, ascending  *)
(* by (group key, then sort key) for whichever keys are given; rows with   *)
(* equal keys keep their input order, also when only one key is given;     *)
(* with neither key the order is unchanged.                                *)
C21_GroupAndSortStable ==
    op = "group_and_sort" =>
        LET nt == args.nt
            out == ret.value
            n == Len(nt)
        IN  /\ Len(out) = n
            /\ \A i \in 1..n : \E j \in 1..n : out[j] = nt[i]
            /\ \A i, j \in 1..n : i < j =>
                   /\ ~Before(out[j], out[i], args.group_by, args.sort_by)
                   /\ ~Before(out[i], out[j], args.group_by, args.sort_by) =>
                          RowOf(nt, out[i].node) < RowOf(nt, out[j].node)
            /\ (args.group_by = None /\ args.sort_by = None) => out = nt

\* the call a is the call b made again: the same table and parameters,
\* and the same dictionary object handed in
SameCall(a, b) ==
    /\ a.nt = b.nt /\ a.layout_func = b.layout_func
    /\ a.group_by = b.group_by /\ a.sort_by = b.sort_by
    /\ a.color_by = b.color_by /\ a.alpha_by = b.alpha_by
    /\ a.size_by = b.size_by

----------------------------------------------------------------------------
\* the angle of node n in the primary positions of the call
PrimaryAngle(n) == to_polar(args.pos[n][1], args.pos[n][2], "radians")[2]

\* the angle of node n in the cloned positions of the call
ClonedAngle(n) ==
    IF args.pos_cloned = <<>> THEN PrimaryAngle(n)
    ELSE to_polar(args.pos_cloned[1][n][1], args.pos_cloned[1][n][2],
                  "radians")[2]

\* the one or two angles of node n
OwnAngles(n) == {PrimaryAngle(n), ClonedAngle(n)}

\* every combination of the angles of edge row r has zero separation after
\* correct_hive_angles
Degenerate(r) ==
    \A s \in OwnAngles(args.et[r].source), e \in OwnAngles(args.et[r].target) :
        correct_hive_angles(s, e)[1] = correct_hive_angles(s, e)[2]

\* the curves emitted for edge row r
CurvesOf(r) == {k \in 1..Len(ret.value) : ret.value[k].row = r}

(* C23: the hive edge generator raises no error; an edge whose four angle  *)
(* combinations all have zero separation after correct_hive_angles gets no *)
(* curve, every other edge gets its curve; with pos_cloned = None every    *)
(* edge between two nodes on the same ray is skipped.                      *)
C23_DegenerateSkipped ==
    op = "lines.hive" =>
        /\ ret.status = "ok"
        /\ \A r \in 1..Len(args.et) :
            /\ IF Degenerate(r) THEN CurvesOf(r) = {}
               ELSE Cardinality(CurvesOf(r)) = 1
            /\ (/\ args.pos_cloned = <<>>
                /\ PrimaryAngle(args.et[r].source)
                       = PrimaryAngle(args.et[r].target))
               => CurvesOf(r) = {}

\* a call without clones with a skipped edge between two different nodes of
\* one ray, followed by an edge that is drawn
C23_Witness ==
    /\ op = "lines.hive"
    /\ ret.status = "ok"
    /\ args.pos_cloned = <<>>
    /\ Len(args.et) = 2
    /\ args.et[1].source # args.et[1].target
    /\ Degenerate(1)
    /\ CurvesOf(1) = {}
    /\ Cardinality(CurvesOf(2)) = 1

\* a and b differ by at most 3 in 100 of b, the room that the table of
\* sines and the whole steps of the angles need
Within(a, b) == Abs(a - b) * 100 <= 3 * b

\* the distance of two centres on the circle of radius r that are the angle
\* A apart
Chord(r, A) ==
    LET dx == (r * Cos(A)) \div Scale - r
        dy == (r * Sin(A)) \div Scale
    IN  Sqrt(dx * dx + dy * dy)

(* C24: for n_nodes >= 3 and node_radius > 0, two adjacent node centres on *)
(* the circle of radius circos_radius(n_nodes, node_radius), 2*pi/n_nodes  *)
(* apart, are 2*node_radius apart, and the radius is                       *)
(* 2*node_radius / sqrt(2*(1 - cos(2*pi/n_nodes))).                        *)
C24_CircosRadius ==
    (op = "circos_radius" /\ args.n_nodes >= 3 /\ args.node_radius > 0) =>
        /\ ret.status = "ok"
        /\ LET A == TwoPI \div args.n_nodes
               a == 2 * args.node_radius * Scale
           IN  /\ Within(Chord(ret.value, A), a)
               /\ Within(ret.value,
                        (a * Scale) \div Sqrt(2 * (Scale - Cos(A)) * Scale))

\* the radius of a circle of five or more nodes of radius 2
C24_Witness ==
    /\ op = "circos_radius"
    /\ args.n_nodes >= 5
    /\ args.node_radius = 2
    /\ ret.status = "ok"
    /\ ret.value > 2 * Scale

(* C25: for every non-empty list and every member node whose first index   *)
(* is i, item_theta(nodelist, node) is -pi + i*2*pi/len(nodelist), replaced *)
(* by pi minus itself when it exceeds pi.                                  *)
C25_ItemThetaFromMinusPi ==
    (op = "item_theta" /\ Contains(args.nodelist, args.node)) =>
        LET i == Index(args.nodelist, args.node)
            theta_exp == (i * TwoPI) \div Len(args.nodelist) - PI
        IN  /\ ret.status = "ok"
            /\ ret.value = IF theta_exp > PI THEN PI - theta_exp
                           ELSE theta_exp

\* the four combinations of edge row r in the order (primary, primary),
\* (primary, cloned), (cloned, primary), (cloned, cloned) of (source,
\* target), each after correct_hive_angles
Corrected(r) ==
    LET ps == PrimaryAngle(args.et[r].source)
        cs == ClonedAngle(args.et[r].source)
        pt == PrimaryAngle(args.et[r].target)
        ct == ClonedAngle(args.et[r].target)
    IN  << correct_hive_angles(ps, pt), correct_hive_angles(ps, ct),
           correct_hive_angles(cs, pt), correct_hive_angles(cs, ct) >>

\* the angular separation of a pair of angles
Separation(pair) == Abs(pair[2] - pair[1])

\* combination w is the earliest one of the smallest separation that is
\* not zero
Wins(combos, w) ==
    /\ Separation(combos[w]) # 0
    /\ \A j \in DOMAIN combos :
        Separation(combos[j]) # 0 =>
            /\ Separation(combos[w]) <= Separation(combos[j])
            /\ j < w => Separation(combos[w]) < Separation(combos[j])

(* C26: the curve of a hive edge runs between the corrected angles of the  *)
(* combination with the smallest non-zero separation, the combinations     *)
(* taken in the order (primary, primary), (primary, cloned), (cloned,      *)
(* primary), (cloned, cloned); of two combinations with the same smallest  *)
(* separation the earlier one is used.                                     *)
C26_HiveRouting ==
    (op = "lines.hive" /\ ret.status = "ok") =>
        \A k \in 1..Len(ret.value) :
            \E combos \in {Corrected(ret.value[k].row)} :
                \E w \in DOMAIN combos :
                    /\ Wins(combos, w)
                    /\ ret.value[k].start[2] = combos[w][1]
                    /\ ret.value[k].end[2] % TwoPI = combos[w][2] % TwoPI

\* an edge whose (primary, cloned) and (cloned, primary) combinations have
\* the same smallest separation between different angles, drawn from the
\* primary angle of the source to the cloned angle of the target
C26_Witness ==
    /\ op = "lines.hive"
    /\ ret.status = "ok"
    /\ Len(ret.value) >= 1
    /\ \E combos \in {Corrected(ret.value[1].row)} :
        /\ Wins(combos, 2)
        /\ Separation(combos[3]) = Separation(combos[2])
        /\ combos[3] # combos[2]
        /\ ret.value[1].start[2] = combos[2][1]
        /\ ret.value[1].end[2] = combos[2][2]

\* the arc of edge row r is centred at the midpoint of its two nodes, as
\* wide and as high as they are apart, and spans 0 to 180 degrees
HalfCircle(r) ==
    LET source == args.pos[args.et[r].source]
        target == args.pos[args.et[r].target]
        patch == ret.value[r]
    IN  /\ 2 * patch.xy[1] = source[1] + target[1]
        /\ 2 * patch.xy[2] = source[2] + target[2]
        /\ patch.width = Abs(target[1] - source[1])
        /\ patch.height = patch.width
        /\ patch.theta1 = 0
        /\ patch.theta2 = HalfTurn

(* C27: for every edge row over an arc layout, whichever endpoint is the   *)
(* source, lines.arc emits an arc centred at the midpoint of the two node  *)
(* positions, with width = height = |x_target - x_source|, spanning 0 to   *)
(* 180 degrees; also for an edge from a node to itself.                    *)
C27_ArcSpan ==
    op = "lines.arc" =>
        /\ ret.status = "ok"
        /\ Len(ret.value) = Len(args.et)
        /\ \A r \in 1..Len(args.et) : HalfCircle(r)

\* the rank of a node: the number of rows above its row in the node table
\* that the two layouts were made of
RankOf(node) ==
    (CHOOSE k \in 1..Len(args.nt) : args.nt[k].node = node) - 1

(* C28: for every edge row lines.matrix emits exactly one circle, centred  *)
(* at (max(x_start, y_start), max(x_end, y_end)) with (x_start, y_start)   *)
(* the position of the source in the cloned (axis "y") layout and (x_end,  *)
(* y_end) that of the target in the primary (axis "x") layout: the cell    *)
(* (2*(i + 1), 2*(j + 1)) for a source of rank i and a target of rank j;   *)
(* its radius is the line width of the edge.                               *)
C28_MatrixGlyph ==
    op = "lines.matrix" =>
        /\ ret.status = "ok"
        /\ Len(ret.value) = Len(args.et)
        /\ \A r \in 1..Len(args.et) :
            LET start == args.pos_cloned[args.et[r].source]
                end == args.pos[args.et[r].target]
                i == RankOf(args.et[r].source)
                j == RankOf(args.et[r].target)
            IN  /\ ret.value[r].xy[1] = IF start[1] >= start[2] THEN start[1]
                                        ELSE start[2]
                /\ ret.value[r].xy[2] = IF end[1] >= end[2] THEN end[1]
                                        ELSE end[2]
                /\ ret.value[r].xy = <<2 * (i + 1), 2 * (j + 1)>>
                /\ ret.value[r].radius = args.lw[r]

\* an edge of line width 2 from a node of rank 2 to the node of rank 0,
\* drawn at the cell (6, 2), and its reverse of line width 1 at (2, 6)
C28_Witness ==
    /\ op = "lines.matrix"
    /\ Len(args.et) = 2
    /\ RankOf(args.et[1].source) = 2 /\ RankOf(args.et[1].target) = 0
    /\ args.lw = <<2, 1>>
    /\ ret.status = "ok"
    /\ ret.value = <<[xy |-> <<6, 2>>, radius |-> 2],
                     [xy |-> <<2, 6>>, radius |-> 1]>>

\* the radius of node n in the primary positions of the call
PrimaryRadius(n) == to_polar(args.pos[n][1], args.pos[n][2], "radians")[1]

\* theta is, up to whole turns, one of the angles of node n
IsOwnAngle(theta, n) == \E own \in OwnAngles(n) : theta % TwoPI = own % TwoPI

(* C29: for every emitted hive curve the first control point has the       *)
(* radius of the source node with one of the source node's own angles      *)
(* (primary or cloned), and the last control point has the radius of the   *)
(* target node with one of the target node's own angles, also when         *)
(* correct_hive_angles swapped start and end for the winning combination.  *)
C29_EndpointsAttached ==
    (op = "lines.hive" /\ ret.status = "ok") =>
        \A k \in 1..Len(ret.value) :
            LET patch == ret.value[k]
                d == args.et[patch.row]
            IN  /\ patch.start[1] = PrimaryRadius(d.source)
                /\ IsOwnAngle(patch.start[2], d.source)
                /\ patch.end[1] = PrimaryRadius(d.target)
                /\ IsOwnAngle(patch.end[2], d.target)

\* no two nodes of a position map share a position
Injective(pos) ==
    \A a, b \in DOMAIN pos : a # b => pos[a] # pos[b]

(* C30: distinct nodes get distinct positions: the position maps returned  *)
(* by circos (of 3 nodes or more), arc, matrix, parallel and hive (of at   *)
(* most 3 groups) give no two different nodes the same (x, y).             *)
C30_DistinctPositions ==
    (/\ op \in {"circos", "arc", "matrix", "parallel", "hive"}
     /\ ret.status = "ok"
     /\ op = "circos" => Len(args.nt) >= 3)
        => Injective(ret.value)
====
